---------------------------- MODULE Spec2Model ----------------------------
(***************************************************************************)
(* Model of the packaged mail_reader: the contact ledger and statistics    *)
(* aggregator (EmailProcessor, StatsManager) and the batch orchestrator    *)
(* (EmailReader.process_emails with its pool of worker processes).         *)
(*                                                                         *)
(* Python values are modelled as follows.  None and pandas' NaN are the    *)
(* strings "None" and "NaN".  A datetime is [type |-> "datetime", t |-> d] *)
(* and its textual form in a CSV file is [type |-> "str", t |-> d].  The   *)
(* float advertisement_rate is kept as the exact fraction num/den in       *)
(* lowest terms.  datetime.now().isoformat() is the string "now".          *)
(***************************************************************************)
EXTENDS Integers, Sequences, FiniteSets, TLC

\* ------------------------------------------------------------------ bounds
MaxOps   == 4      \* calls made on one EmailProcessor in SpecAgg
MaxMsgs  == 2      \* messages in the mailbox of a process_emails run
MaxKeyOps == 4     \* calls made on one EmailProcessor in SpecKeys
MaxIoOps == 3      \* calls made on one EmailProcessor in SpecIO
MaxFromLen == 5    \* pieces of a From header
MaxParts == 2      \* parts of a multipart message
MaxTokens == 2     \* <...> tokens of a List-Unsubscribe header
MaxLinks == 2      \* anchors of a body, and URLs in its text
MaxWords == 4      \* pieces of a text given to the detector
MaxMonMsgs == 2    \* messages in the mailbox in SpecMon
MaxRuns == 2       \* calls of process_emails on one EmailReader in SpecMon
MaxFetched == 4    \* messages in the mailbox in SpecSplit

\* ------------------------------------------------------------------ values
None == "None"
NaN  == "NaN"
Now  == "now"

Senders == {"a@x.com", "b@x.com"}
\* what get_sender_email returns for From headers that carry an address in
\* capitals, the same address in small letters, and for a From header that
\* is empty or missing
KeySenders == {"A@x.com", "a@x.com", ""}
\* str.lower on these addresses
Lower(s) == IF s = "A@x.com" THEN "a@x.com" ELSE s
HttpUrls == {"https://a", "https://b"}
\* what extract_unsubscribe_url returns: a non-empty string or None
Urls == HttpUrls \cup {None}
\* the timestamps a parsable Date header carries
Dates == {1, 2}
\* a Date header that strptime rejects (missing or malformed)
BadDate == 0

\* One raw message, by what the parser and the detector make of it.
Messages ==
  [sender : Senders, date : Dates \cup {BadDate}, is_ad : BOOLEAN, url : Urls]

Datetime(d) == [type |-> "datetime", t |-> d]
Absent(u) == u \in {None, NaN}

RECURSIVE GCD(_, _)
GCD(a, b) == IF b = 0 THEN a ELSE GCD(b, a % b)

\* ads / total * 100 as an exact fraction in lowest terms
Percent(ads, total) ==
  LET g == GCD(100 * ads, total)
  IN  [num |-> (100 * ads) \div g, den |-> total \div g]

RateZero == [num |-> 0, den |-> 1]

\* ------------------------------------------------------------ StatsManager
DefaultStats ==
  [total_emails_processed |-> 0,
   total_advertisements   |-> 0,
   unique_senders         |-> 0,
   advertisement_rate     |-> RateZero,
   last_processed         |-> None]

\* a file on disk: absent, or holding data
NoFile(default) == [exists |-> FALSE, data |-> default]
File(d) == [exists |-> TRUE, data |-> d]

\* json.dump of the statistics dict: None is written as null, the float
\* in its shortest repr (which json.load reads back to the same float), the
\* integers and the isoformat string as they are
JsonNull == "null"

\* save_stats that writes the rate rounded to two decimals
DumpStatsRounded(st) ==
  LET r == st.advertisement_rate
      hundredths == (200 * r.num + r.den) \div (2 * r.den)
      g == GCD(hundredths, 100)
  IN  [st EXCEPT !.last_processed = IF @ = None THEN JsonNull ELSE @,
                 !.advertisement_rate =
                    [num |-> hundredths \div g, den |-> 100 \div g]]

DumpStats(st) ==
  [st EXCEPT !.last_processed = IF @ = None THEN JsonNull ELSE @]

\* json.load of the statistics file
ParseStats(d) ==
  [d EXCEPT !.last_processed = IF @ = JsonNull THEN None ELSE @]

\* StatsManager._load_stats
LoadStats(f) == IF f.exists THEN ParseStats(f.data) ELSE DefaultStats

\* update_stats that forgets to recompute the rate
StaleRateStats(st, is_ad) ==
  [st EXCEPT !.total_emails_processed = @ + 1,
             !.total_advertisements = IF is_ad THEN @ + 1 ELSE @,
             !.last_processed = Now]

\* StatsManager.update_stats: the new dict (the caller writes the file)
UpdateStats(st, is_ad) ==
  LET total == st.total_emails_processed + 1
      ads   == st.total_advertisements + (IF is_ad THEN 1 ELSE 0)
  IN  [st EXCEPT !.total_emails_processed = total,
                 !.total_advertisements = ads,
                 !.advertisement_rate = Percent(ads, total),
                 !.last_processed = Now]

\* ---------------------------------------------------------- EmailProcessor
EmptyContacts == [s \in {} |-> None]

NewRow(date, is_ad, unsubscribe_url) ==
  [last_contact     |-> Datetime(date),
   is_advertisement |-> is_ad,
   unsubscribe_url  |-> unsubscribe_url,
   total_emails     |-> 1,
   ad_emails        |-> IF is_ad THEN 1 ELSE 0]

\* _update_contacts with the sticky test dropped, with every message
\* counted as an advertisement, and with the flag accumulated
UpdateContactsOverwriteUrl(df, sender_email, date, is_ad, unsubscribe_url) ==
  IF sender_email \notin DOMAIN df
  THEN [s \in DOMAIN df \cup {sender_email} |->
          IF s = sender_email THEN NewRow(date, is_ad, unsubscribe_url) ELSE df[s]]
  ELSE [df EXCEPT ![sender_email] =
          [@ EXCEPT !.last_contact = Datetime(date),
                    !.is_advertisement = is_ad,
                    !.unsubscribe_url = unsubscribe_url,
                    !.total_emails = @ + 1,
                    !.ad_emails = IF is_ad THEN @ + 1 ELSE @]]

UpdateContactsCountAllAds(df, sender_email, date, is_ad, unsubscribe_url) ==
  IF sender_email \notin DOMAIN df
  THEN [s \in DOMAIN df \cup {sender_email} |->
          IF s = sender_email THEN NewRow(date, is_ad, unsubscribe_url) ELSE df[s]]
  ELSE [df EXCEPT ![sender_email] =
          [@ EXCEPT !.last_contact = Datetime(date),
                    !.is_advertisement = is_ad,
                    !.unsubscribe_url =
                       IF unsubscribe_url # None THEN unsubscribe_url ELSE @,
                    !.total_emails = @ + 1,
                    !.ad_emails = @ + 1]]

UpdateContactsKeepFlag(df, sender_email, date, is_ad, unsubscribe_url) ==
  IF sender_email \notin DOMAIN df
  THEN [s \in DOMAIN df \cup {sender_email} |->
          IF s = sender_email THEN NewRow(date, is_ad, unsubscribe_url) ELSE df[s]]
  ELSE [df EXCEPT ![sender_email] =
          [@ EXCEPT !.last_contact = Datetime(date),
                    !.is_advertisement = @ \/ is_ad,
                    !.unsubscribe_url =
                       IF unsubscribe_url # None THEN unsubscribe_url ELSE @,
                    !.total_emails = @ + 1,
                    !.ad_emails = IF is_ad THEN @ + 1 ELSE @]]

\* _update_contacts whose concat keeps only the new row
UpdateContactsDropOthers(df, sender_email, date, is_ad, unsubscribe_url) ==
  IF sender_email \notin DOMAIN df
  THEN [s \in {sender_email} |-> NewRow(date, is_ad, unsubscribe_url)]
  ELSE [df EXCEPT ![sender_email] =
          [@ EXCEPT !.last_contact = Datetime(date),
                    !.is_advertisement = is_ad,
                    !.unsubscribe_url =
                       IF unsubscribe_url # None THEN unsubscribe_url ELSE @,
                    !.total_emails = @ + 1,
                    !.ad_emails = IF is_ad THEN @ + 1 ELSE @]]

\* EmailProcessor._update_contacts
UpdateContacts(df, sender_email, date, is_ad, unsubscribe_url) ==
  IF sender_email \notin DOMAIN df
  THEN [s \in DOMAIN df \cup {sender_email} |->
          IF s = sender_email THEN NewRow(date, is_ad, unsubscribe_url) ELSE df[s]]
  ELSE [df EXCEPT ![sender_email] =
          [@ EXCEPT !.last_contact = Datetime(date),
                    !.is_advertisement = is_ad,
                    \* "if unsubscribe_url:" -- None and '' are falsy
                    !.unsubscribe_url =
                       IF unsubscribe_url # None THEN unsubscribe_url ELSE @,
                    !.total_emails = @ + 1,
                    !.ad_emails = IF is_ad THEN @ + 1 ELSE @]]

\* DataFrame.to_csv / pandas.read_csv of one row: None is written as an
\* empty field and read back as NaN; a datetime is written as text and
\* read back as a string.
CsvRow(r) ==
  [r EXCEPT !.last_contact = [type |-> "str", t |-> @.t],
            !.unsubscribe_url = IF Absent(@) THEN NaN ELSE @]

\* the email column: an empty string is written as an empty field and read
\* back as NaN
CsvKey(s) == IF s = "" THEN NaN ELSE s

\* DataFrame.to_csv followed by pandas.read_csv, row by row (a ledger with
\* both a row '' and a row NaN takes more calls than SpecKeys makes)
ToCsv(df) ==
  [k \in {CsvKey(s) : s \in DOMAIN df} |->
     CsvRow(df[CHOOSE s \in DOMAIN df : CsvKey(s) = k])]

\* EmailProcessor._load_contacts
LoadContacts(f) == IF f.exists THEN f.data ELSE EmptyContacts

\* process_email that counts a message in the statistics before it parses
\* the Date header
ProcessEmailCountsFailures(proc, msg) ==
  IF msg.date = BadDate
  THEN [ok |-> FALSE, contacts_df |-> proc.contacts_df,
        stats |-> UpdateStats(proc.stats, msg.is_ad),
        is_advertisement |-> FALSE, unsubscribe_url |-> None]
  ELSE [ok |-> TRUE,
        contacts_df |-> UpdateContacts(proc.contacts_df, msg.sender, msg.date,
                                       msg.is_ad, msg.url),
        stats |-> UpdateStats(proc.stats, msg.is_ad),
        is_advertisement |-> msg.is_ad,
        unsubscribe_url |-> msg.url]

\* EmailProcessor.process_email on a processor proc = [contacts_df, stats].
\* The parsing steps raise on a bad Date header before anything is touched;
\* the handler then returns None.  Otherwise the row and the statistics are
\* updated and update_stats rewrites the statistics file.
ProcessEmail(proc, msg) ==
  IF msg.date = BadDate
  THEN [ok |-> FALSE, contacts_df |-> proc.contacts_df, stats |-> proc.stats,
        is_advertisement |-> FALSE, unsubscribe_url |-> None]
  ELSE [ok |-> TRUE,
        contacts_df |-> UpdateContacts(proc.contacts_df, msg.sender, msg.date,
                                       msg.is_ad, msg.url),
        stats |-> UpdateStats(proc.stats, msg.is_ad),
        is_advertisement |-> msg.is_ad,
        unsubscribe_url |-> msg.url]

\* ------------------------------------------------------------------- state
VARIABLES
  contacts_df,     \* EmailProcessor.contacts_df of the orchestrating process
  stats,           \* StatsManager.stats of the orchestrating process
  contacts_file,   \* the ledger CSV file on disk
  stats_file,      \* the statistics JSON file on disk
  stats_writers,   \* history: execution contexts that wrote stats_file
  hist,            \* history: per sender, the deltas behind contacts_df
  file_hist,       \* history: hist as of the last write of contacts_file
  ops,             \* number of calls made on the processor in SpecAgg
  pc,              \* position of process_emails
  num_processes,   \* EmailReader.num_processes
  delete_spam,     \* EmailReader.delete_spam
  inbox,           \* the messages on the POP3 server, index 1..Len
  emails,          \* process_emails' list of fetched (msg, i)
  email_batches,   \* process_emails' email_batches
  tasks,           \* per batch: the pool task running _process_email_batch
  results,         \* what pool.map returned
  spam_folder,     \* msg_num of every spam file stored locally
  dele_calls,      \* msg_num of every server.dele call, in order
  shared_queue,    \* the manager queue of email_info updates
  run_start,       \* history: the files as process_emails found them
  run_no,          \* SpecEq: which of the two compared runs this is
  first_run,       \* SpecEq: outcome of the first of the two runs
  probe,           \* SpecParse: one call of a parser or detector function
  update_callback, \* EmailReader.update_callback: whether one is set
  monitors,        \* the threads running _monitor_progress, in start order
  taken,           \* how many items have been taken off shared_queue
  callback_log,    \* history: the items passed to the callback, in call order
  reported         \* SpecIO: number of process_email calls that gave a result

vars ==
  <<contacts_df, stats, contacts_file, stats_file, stats_writers, hist,
    file_hist, ops, pc, num_processes, delete_spam, inbox, emails,
    email_batches, tasks, results, spam_folder, dele_calls, shared_queue,
    run_start, run_no, first_run, probe, update_callback, monitors, taken,
    callback_log, reported>>

procVars == <<contacts_df, stats, contacts_file, stats_file, stats_writers,
              hist, file_hist, ops>>
runVarsButTasks == <<pc, num_processes, delete_spam, inbox, emails, email_batches,
                    results, spam_folder, dele_calls, shared_queue,
                    run_start, run_no, first_run>>
runVars == <<pc, num_processes, delete_spam, inbox, emails, email_batches,
             tasks, results, spam_folder, dele_calls, shared_queue,
             run_start, run_no, first_run>>

\* the observer thread and what it works on
monVars == <<update_callback, monitors, taken, callback_log>>

Orchestrator == <<"orchestrator", 0>>
Task(b) == <<"task", b>>

NoHist ==
  [s \in Senders \cup KeySenders |->
     [n |-> 0, ads |-> 0, url |-> None, last |-> None]]
\* no parser or detector call is being looked at
NoProbe == [fn |-> "none", arg |-> None, done |-> FALSE, out |-> None]

\* EmailReader.__init__: no callback, an empty queue, no observer thread
NoObserver ==
  /\ update_callback = FALSE
  /\ monitors = <<>>
  /\ taken = 0
  /\ callback_log = <<>>

NoRun == [emails |-> <<>>, contacts |-> NoFile(EmptyContacts),
          stats |-> NoFile(DefaultStats)]

\* the history of deltas after one more delta: how many, how many of them
\* advertisements, the last non-empty URL, and the URL of the last delta
Record(h, msg) ==
  [h EXCEPT ![msg.sender] =
     [n   |-> @.n + 1,
      ads |-> @.ads + (IF msg.is_ad THEN 1 ELSE 0),
      url |-> IF msg.url # None THEN msg.url ELSE @.url,
      last |-> msg.url]]

\* EmailProcessor.__init__ on files that do not exist yet
ProcInit ==
  /\ contacts_file = NoFile(EmptyContacts)
  /\ stats_file = NoFile(DefaultStats)
  /\ contacts_df = LoadContacts(contacts_file)
  /\ stats = LoadStats(stats_file)
  /\ stats_writers = {}
  /\ hist = NoHist
  /\ file_hist = NoHist
  /\ ops = 0

RunIdle ==
  /\ pc = "idle"
  /\ num_processes = 1
  /\ delete_spam = TRUE
  /\ inbox = <<>>
  /\ emails = <<>>
  /\ email_batches = <<>>
  /\ tasks = <<>>
  /\ results = <<>>
  /\ spam_folder = {}
  /\ dele_calls = <<>>
  /\ shared_queue = <<>>
  /\ run_start = [contacts |-> contacts_file, stats |-> stats_file]
  /\ run_no = 1
  /\ first_run = NoRun

\* ------------------------------------------- calls on one EmailProcessor
\* processor.process_email(msg)
CallProcessEmail ==
  /\ ops < MaxOps
  /\ \E msg \in Messages :
       LET r == ProcessEmail([contacts_df |-> contacts_df, stats |-> stats], msg)
       IN  /\ contacts_df' = r.contacts_df
           /\ stats' = r.stats
           /\ stats_file' = IF r.ok THEN File(DumpStats(r.stats)) ELSE stats_file
           /\ stats_writers' = IF r.ok THEN stats_writers \cup {Orchestrator}
                                       ELSE stats_writers
           /\ hist' = IF r.ok THEN Record(hist, msg) ELSE hist
  /\ ops' = ops + 1
  /\ UNCHANGED <<contacts_file, file_hist>>
  /\ UNCHANGED runVars
  /\ UNCHANGED <<probe, reported>>
  /\ UNCHANGED monVars

\* processor.stats_manager.reset_stats()
CallResetStats ==
  /\ ops < MaxOps
  /\ ops' = ops + 1
  /\ stats' = DefaultStats
  /\ stats_file' = File(DumpStats(DefaultStats))
  /\ stats_writers' = stats_writers \cup {Orchestrator}
  /\ UNCHANGED <<contacts_df, contacts_file, hist, file_hist>>
  /\ UNCHANGED runVars
  /\ UNCHANGED <<probe, reported>>
  /\ UNCHANGED monVars

\* save_state that leaves the statistics file as it is
SaveStateNoStats(df, st, cf, sf) == [contacts |-> File(ToCsv(df)), stats |-> sf]

\* EmailProcessor.save_state: _save_contacts, then save_stats; the files
\* after it, given the ledger df, the statistics st and the files cf, sf
SaveState(df, st, cf, sf) ==
  [contacts |-> File(ToCsv(df)), stats |-> File(DumpStats(st))]

\* processor.save_state()
CallSaveState ==
  /\ ops < MaxOps
  /\ ops' = ops + 1
  /\ LET w == SaveState(contacts_df, stats, contacts_file, stats_file)
     IN  /\ contacts_file' = w.contacts
         /\ stats_file' = w.stats
  /\ stats_writers' = stats_writers \cup {Orchestrator}
  /\ file_hist' = hist
  /\ UNCHANGED <<contacts_df, stats, hist>>
  /\ UNCHANGED runVars
  /\ UNCHANGED <<probe, reported>>
  /\ UNCHANGED monVars

\* EmailProcessor(contacts_file, stats_file): a new processor on the files
CallReload ==
  /\ ops < MaxOps
  /\ ops' = ops + 1
  /\ contacts_df' = LoadContacts(contacts_file)
  /\ stats' = LoadStats(stats_file)
  /\ hist' = file_hist
  /\ UNCHANGED <<contacts_file, stats_file, stats_writers, file_hist>>
  /\ UNCHANGED runVars
  /\ UNCHANGED <<probe, reported>>
  /\ UNCHANGED monVars

InitAgg == ProcInit /\ RunIdle /\ probe = NoProbe /\ NoObserver /\ reported = 0

NextAgg ==
  \/ CallProcessEmail
  \/ CallResetStats
  \/ CallSaveState
  \/ CallReload

SpecAgg == InitAgg /\ [][NextAgg]_vars

\* ------------------------------------------------- claims on the aggregator
\* C4: for every sender of the ledger, 0 <= ad_emails <= total_emails,
\* total_emails >= 1, total_emails is the number of deltas applied for the
\* sender and ad_emails the number of those that were advertisements; a
\* sender with an applied delta has a row.
C4_CountsMatchDeltas ==
  /\ \A s \in DOMAIN contacts_df :
       /\ 0 <= contacts_df[s].ad_emails
       /\ contacts_df[s].ad_emails <= contacts_df[s].total_emails
       /\ contacts_df[s].total_emails >= 1
       /\ contacts_df[s].total_emails = hist[s].n
       /\ contacts_df[s].ad_emails = hist[s].ads
  /\ \A s \in Senders : hist[s].n > 0 => s \in DOMAIN contacts_df

C4_Witness ==
  \E s \in DOMAIN contacts_df :
    /\ contacts_df[s].total_emails = 3
    /\ contacts_df[s].ad_emails = 1
    /\ hist[s].n = 3

RateIsCurrent(st) ==
  /\ st.advertisement_rate.den > 0
  /\ IF st.total_emails_processed > 0
     THEN st.advertisement_rate.num * st.total_emails_processed
            = 100 * st.total_advertisements * st.advertisement_rate.den
     ELSE st.advertisement_rate.num = 0
  /\ 0 <= st.advertisement_rate.num
  /\ st.advertisement_rate.num <= 100 * st.advertisement_rate.den

C6_StickyUrl ==
  /\ \A s \in DOMAIN contacts_df :
       IF hist[s].url = None
       THEN Absent(contacts_df[s].unsubscribe_url)
       ELSE contacts_df[s].unsubscribe_url = hist[s].url
  /\ \A msg \in Messages :
       (msg.date # BadDate /\ msg.url = None /\ msg.sender \in DOMAIN contacts_df)
       => UpdateContacts(contacts_df, msg.sender, msg.date, msg.is_ad, msg.url)
            [msg.sender].unsubscribe_url
          = contacts_df[msg.sender].unsubscribe_url

C6_Witness ==
  \E s \in DOMAIN contacts_df :
    /\ hist[s].n = 3
    /\ hist[s].last = None
    /\ hist[s].url = "https://b"
    /\ contacts_df[s].unsubscribe_url = "https://b"

\* C7: applying one delta does what the reference apply operator does: a
\* sender without a row gets one with total 1, ad count 1 or 0, the delta's
\* timestamp, flag and URL; a sender with a row gets total + 1, ad count + 1
\* iff the delta is an advertisement, and the delta's timestamp and flag,
\* whatever the timestamp recorded before.
C7_ApplyMatchesReference ==
  \A msg \in Messages :
    msg.date # BadDate =>
      LET r   == ProcessEmail([contacts_df |-> contacts_df, stats |-> stats], msg)
          new == r.contacts_df[msg.sender]
      IN  /\ r.ok
          /\ msg.sender \in DOMAIN r.contacts_df
          /\ new.last_contact = [type |-> "datetime", t |-> msg.date]
          /\ new.is_advertisement = msg.is_ad
          /\ IF msg.sender \notin DOMAIN contacts_df
             THEN /\ new.total_emails = 1
                  /\ new.ad_emails = (IF msg.is_ad THEN 1 ELSE 0)
                  /\ new.unsubscribe_url = msg.url
             ELSE /\ new.total_emails = contacts_df[msg.sender].total_emails + 1
                  /\ new.ad_emails = contacts_df[msg.sender].ad_emails
                                       + (IF msg.is_ad THEN 1 ELSE 0)

\* a second delta, not an advertisement and with the earlier timestamp,
\* has been applied over a first one that was an advertisement
C7_Witness ==
  \E s \in DOMAIN contacts_df :
    /\ contacts_df[s].total_emails = 2
    /\ contacts_df[s].ad_emails = 1
    /\ contacts_df[s].is_advertisement = FALSE
    /\ contacts_df[s].last_contact = [type |-> "datetime", t |-> 1]

\* C10: unique_senders, in the statistics manager and in the statistics
\* file, is the number of rows of the ledger.
C10_UniqueSendersIsLedgerSize ==
  /\ stats.unique_senders = Cardinality(DOMAIN contacts_df)
  /\ stats_file.exists =>
       stats_file.data.unique_senders = Cardinality(DOMAIN contacts_df)

\* ------------------------------------------- EmailReader.process_emails
Min(a, b) == IF a < b THEN a ELSE b
Max(a, b) == IF a > b THEN a ELSE b
Range(q) == {q[i] : i \in DOMAIN q}

RECURSIVE SeqsUpTo(_, _)
SeqsUpTo(S, n) ==
  IF n = 0 THEN {<<>>}
  ELSE LET shorter == SeqsUpTo(S, n - 1)
       IN  shorter \cup {Append(q, x) : q \in shorter, x \in S}

RECURSIVE Flatten(_)
Flatten(qq) == IF qq = <<>> THEN <<>> ELSE Head(qq) \o Flatten(Tail(qq))

RECURSIVE Select(_, _)
Select(q, keep) ==
  IF q = <<>> THEN <<>>
  ELSE (IF Head(q) \in keep THEN <<Head(q)>> ELSE <<>>) \o Select(Tail(q), keep)

\* The messages a mailbox is filled with: an advertisement carries the
\* unsubscribe URL https://a, any other message carries none.
RunMessages ==
  {m \in Messages : /\ m.date \in {BadDate, 1}
                    /\ m.url = (IF m.is_ad THEN "https://a" ELSE None)}

\* values of num_processes (max(1, cpu_count() - 1), or set by the web UI)
ProcChoices == {1, 2, 4}

\* files left by an earlier session that processed msg and saved its state
SessionFiles(msg) ==
  [contacts |-> File(ToCsv(UpdateContacts(EmptyContacts, msg.sender, msg.date,
                                          msg.is_ad, msg.url))),
   stats    |-> File(DumpStats(UpdateStats(DefaultStats, msg.is_ad))),
   hist     |-> Record(NoHist, msg)]

NoFiles ==
  [contacts |-> NoFile(EmptyContacts), stats |-> NoFile(DefaultStats),
   hist |-> NoHist]

PriorFiles ==
  {NoFiles,
   SessionFiles([sender |-> "a@x.com", date |-> 2, is_ad |-> FALSE, url |-> None])}

\* EmailReader.__init__ on the files on disk: a processor loaded from them
ReaderInit(files) ==
  /\ contacts_file = files.contacts
  /\ stats_file = files.stats
  /\ contacts_df = LoadContacts(contacts_file)
  /\ stats = LoadStats(stats_file)
  /\ stats_writers = {}
  /\ hist = files.hist
  /\ file_hist = files.hist
  /\ ops = 0
  /\ run_start = [contacts |-> contacts_file, stats |-> stats_file]

RunReset ==
  /\ pc = "start"
  /\ emails = <<>>
  /\ email_batches = <<>>
  /\ tasks = <<>>
  /\ results = <<>>
  /\ spam_folder = {}
  /\ dele_calls = <<>>
  /\ shared_queue = <<>>

Init ==
  /\ \E files \in PriorFiles : ReaderInit(files)
  /\ num_processes \in ProcChoices
  /\ delete_spam \in BOOLEAN
  /\ inbox \in SeqsUpTo(RunMessages, MaxMsgs)
  /\ RunReset
  /\ run_no = 1
  /\ first_run = NoRun
  /\ probe = NoProbe /\ NoObserver /\ reported = 0

\* lines 152-154: batch_size and the slices emails[i:i + batch_size]
Batches(es, n) ==
  LET batch_size == Max(1, Len(es) \div n)
      count == (Len(es) + batch_size - 1) \div batch_size
  IN  [k \in 1..count |->
         SubSeq(es, (k - 1) * batch_size + 1, Min(k * batch_size, Len(es)))]

\* the copy of the reader a pool task unpickles, before it has run
NewTask ==
  [st |-> "queued", pos |-> 1, contacts_df |-> contacts_df, stats |-> stats,
   delete_spam |-> delete_spam, res |-> <<>>, results |-> <<>>]

Finished(b) == tasks[b].st = "running" /\ tasks[b].pos > Len(email_batches[b])
Running == {b \in DOMAIN tasks : tasks[b].st = "running" /\ ~Finished(b)}

\* lines 127-133: the connection or the login raises
ConnectFails ==
  /\ pc = "start"
  /\ pc' = "failed_connect"
  /\ UNCHANGED <<num_processes, delete_spam, inbox, emails, email_batches, tasks,
                 results, spam_folder, dele_calls, shared_queue, run_start,
                 run_no, first_run>>
  /\ UNCHANGED procVars
  /\ UNCHANGED <<probe, reported>>
  /\ UNCHANGED monVars

\* an observer thread as Thread.start() leaves it: about to call get()
NewMonitor == [st |-> "waiting", item |-> 0]

\* lines 135-150: fetch messages 1..end (a failed retr is skipped), then
\* start the thread that runs _monitor_progress
FetchEmails ==
  /\ pc = "start"
  /\ \E num_emails \in 0..(Len(inbox) + 1), failed \in SUBSET (1..Len(inbox)) :
       LET end == Min(num_emails, Len(inbox))
           all == [i \in 1..end |-> [msg |-> inbox[i], msg_num |-> i]]
       IN  emails' = Select(all, {e \in Range(all) : e.msg_num \notin failed})
  /\ pc' = "split"
  /\ UNCHANGED <<num_processes, delete_spam, inbox, email_batches, tasks,
                 results, spam_folder, dele_calls, shared_queue, run_start,
                 run_no, first_run>>
  /\ monitors' = Append(monitors, NewMonitor)
  /\ UNCHANGED procVars
  /\ UNCHANGED <<probe, reported>>
  /\ UNCHANGED <<update_callback, taken, callback_log>>

\* lines 152-154
SplitBatches ==
  /\ pc = "split"
  /\ email_batches' = Batches(emails, num_processes)
  /\ pc' = "map"
  /\ UNCHANGED <<num_processes, delete_spam, inbox, emails, tasks,
                 results, spam_folder, dele_calls, shared_queue, run_start,
                 run_no, first_run>>
  /\ UNCHANGED procVars
  /\ UNCHANGED <<probe, reported>>
  /\ UNCHANGED monVars

\* lines 157-158: pool.map queues one task per batch
PoolMap ==
  /\ pc = "map"
  /\ tasks' = [b \in DOMAIN email_batches |-> NewTask]
  /\ pc' = "pool"
  /\ UNCHANGED <<num_processes, delete_spam, inbox, emails, email_batches,
                 results, spam_folder, dele_calls, shared_queue, run_start,
                 run_no, first_run>>
  /\ UNCHANGED procVars
  /\ UNCHANGED <<probe, reported>>
  /\ UNCHANGED monVars

\* lines 157-158 and 178-179: pool.map raises before any task has run (the
\* bound method cannot be pickled: the reader holds a Manager), and the
\* handler of process_emails logs the error and returns
PoolMapRaises ==
  /\ pc = "map"
  /\ pc' = "failed_map"
  /\ UNCHANGED <<num_processes, delete_spam, inbox, emails, email_batches, tasks,
                 results, spam_folder, dele_calls, shared_queue, run_start,
                 run_no, first_run>>
  /\ UNCHANGED procVars
  /\ UNCHANGED <<probe, reported>>
  /\ UNCHANGED monVars

\* a free pool process takes the next queued task
TaskStart(b) ==
  /\ pc = "pool"
  /\ tasks[b].st = "queued"
  /\ \A c \in 1..(b - 1) : tasks[c].st # "queued"
  /\ Cardinality(Running) < num_processes
  /\ tasks' = [tasks EXCEPT ![b].st = "running"]
  /\ UNCHANGED <<pc, num_processes, delete_spam, inbox, emails, email_batches,
                 results, spam_folder, dele_calls, shared_queue, run_start,
                 run_no, first_run>>
  /\ UNCHANGED procVars
  /\ UNCHANGED <<probe, reported>>
  /\ UNCHANGED monVars

\* a batch loop that gives up at the first message whose processing fails
\* and returns no result for the batch
WorkerProcessEmailAbort(b) ==
  /\ pc = "pool"
  /\ b \in Running
  /\ tasks[b].res = <<>>
  /\ LET t == tasks[b]
         e == email_batches[b][t.pos]
         r == ProcessEmail([contacts_df |-> t.contacts_df, stats |-> t.stats], e.msg)
     IN  /\ tasks' = [tasks EXCEPT ![b] =
                        [t EXCEPT !.contacts_df = r.contacts_df,
                                  !.stats = r.stats,
                                  !.res = IF r.ok THEN <<r>> ELSE <<>>,
                                  !.results = IF r.ok THEN @ ELSE <<>>,
                                  !.pos = IF r.ok THEN @
                                          ELSE Len(email_batches[b]) + 1]]
         /\ stats_file' = IF r.ok THEN File(DumpStats(r.stats)) ELSE stats_file
         /\ stats_writers' = IF r.ok THEN stats_writers \cup {Task(b)}
                                     ELSE stats_writers
  /\ UNCHANGED <<contacts_df, stats, contacts_file, hist, file_hist, ops>>
  /\ UNCHANGED runVarsButTasks
  /\ UNCHANGED <<probe, reported>>
  /\ UNCHANGED monVars

\* lines 78-81 in the task of batch b: self.processor.process_email(msg) on
\* the task's copy of the processor; update_stats writes the statistics file
WorkerProcessEmail(b) ==
  /\ pc = "pool"
  /\ b \in Running
  /\ tasks[b].res = <<>>
  /\ LET t == tasks[b]
         e == email_batches[b][t.pos]
         r == ProcessEmail([contacts_df |-> t.contacts_df, stats |-> t.stats], e.msg)
     IN  /\ tasks' = [tasks EXCEPT ![b] =
                        [t EXCEPT !.contacts_df = r.contacts_df,
                                  !.stats = r.stats,
                                  !.res = IF r.ok THEN <<r>> ELSE <<>>,
                                  !.pos = IF r.ok THEN @ ELSE @ + 1]]
         /\ stats_file' = IF r.ok THEN File(DumpStats(r.stats)) ELSE stats_file
         /\ stats_writers' = IF r.ok THEN stats_writers \cup {Task(b)}
                                     ELSE stats_writers
  /\ UNCHANGED <<contacts_df, stats, contacts_file, hist, file_hist, ops>>
  /\ UNCHANGED runVarsButTasks
  /\ UNCHANGED <<probe, reported>>
  /\ UNCHANGED monVars

\* lines 84-103 in the task of batch b: build email_info, store the spam
\* locally (which may fail), put the update on the queue, keep the result
WorkerPublish(b) ==
  /\ pc = "pool"
  /\ b \in Running
  /\ tasks[b].res # <<>>
  /\ LET t == tasks[b]
         e == email_batches[b][t.pos]
         r == t.res[1]
         info == [sender |-> e.msg.sender, is_ad |-> r.is_advertisement,
                  unsubscribe_url |-> r.unsubscribe_url]
         archive == t.delete_spam /\ info.is_ad
     IN  \E stored \in (IF archive THEN BOOLEAN ELSE {FALSE}) :
           LET email_info ==
                 [sender |-> info.sender, is_ad |-> info.is_ad,
                  unsubscribe_url |-> info.unsubscribe_url,
                  stored_locally |-> IF archive
                                     THEN (IF stored THEN "True" ELSE "False")
                                     ELSE None]
           IN  /\ spam_folder' = IF archive /\ stored
                                 THEN spam_folder \cup {e.msg_num}
                                 ELSE spam_folder
               /\ shared_queue' = Append(shared_queue, email_info)
               /\ tasks' = [tasks EXCEPT ![b] =
                              [t EXCEPT !.res = <<>>,
                                        !.pos = @ + 1,
                                        !.results =
                                           Append(@, [email_info |-> email_info,
                                                      msg_num |-> e.msg_num])]]
  /\ UNCHANGED <<pc, num_processes, delete_spam, inbox, emails, email_batches,
                 results, dele_calls, run_start, run_no, first_run>>
  /\ UNCHANGED procVars
  /\ UNCHANGED <<probe, reported>>
  /\ UNCHANGED monVars

\* line 158: every task has returned; pool.map returns the batches' results
PoolMapReturn ==
  /\ pc = "pool"
  /\ \A b \in DOMAIN tasks : Finished(b)
  /\ results' = [b \in DOMAIN tasks |-> tasks[b].results]
  /\ pc' = "delete"
  /\ UNCHANGED <<num_processes, delete_spam, inbox, emails, email_batches, tasks,
                 spam_folder, dele_calls, shared_queue, run_start,
                 run_no, first_run>>
  /\ UNCHANGED procVars
  /\ UNCHANGED <<probe, reported>>
  /\ UNCHANGED monVars

\* a delete loop that takes the position in the result list for the index,
\* and one that does not look at stored_locally
SpamToDeleteByPosition(res, enabled) ==
  IF enabled
  THEN LET flat == Flatten(res)
           pos  == [i \in DOMAIN flat |->
                      [email_info |-> flat[i].email_info, msg_num |-> i]]
           hit  == Select(pos, {x \in Range(pos) :
                                  x.email_info.is_ad
                                  /\ x.email_info.stored_locally = "True"})
       IN  [i \in DOMAIN hit |-> hit[i].msg_num]
  ELSE <<>>

SpamToDeleteUnstored(res, enabled) ==
  IF enabled
  THEN LET flat == Flatten(res)
           hit  == Select(flat, {x \in Range(flat) : x.email_info.is_ad})
       IN  [i \in DOMAIN hit |-> hit[i].msg_num]
  ELSE <<>>

\* lines 160-165: the msg_num of every server.dele call, in order
SpamToDelete(res, enabled) ==
  IF enabled
  THEN LET flat == Flatten(res)
           hit  == Select(flat, {x \in Range(flat) :
                                   x.email_info.is_ad
                                   /\ x.email_info.stored_locally = "True"})
       IN  [i \in DOMAIN hit |-> hit[i].msg_num]
  ELSE <<>>

\* lines 160-165 (a failing dele is logged by _delete_email and goes on)
DeleteSpam ==
  /\ pc = "delete"
  /\ dele_calls' = SpamToDelete(results, delete_spam)
  /\ pc' = "quit"
  /\ UNCHANGED <<num_processes, delete_spam, inbox, emails, email_batches, tasks,
                 results, spam_folder, shared_queue, run_start, run_no, first_run>>
  /\ UNCHANGED procVars
  /\ UNCHANGED <<probe, reported>>
  /\ UNCHANGED monVars

\* line 167: server.quit()
Quit ==
  /\ pc = "quit"
  /\ pc' = "save"
  /\ UNCHANGED <<num_processes, delete_spam, inbox, emails, email_batches, tasks,
                 results, spam_folder, dele_calls, shared_queue, run_start,
                 run_no, first_run>>
  /\ UNCHANGED procVars
  /\ UNCHANGED <<probe, reported>>
  /\ UNCHANGED monVars

\* line 167 and 178-179: server.quit() raises
QuitFails ==
  /\ pc = "quit"
  /\ pc' = "failed_quit"
  /\ UNCHANGED <<num_processes, delete_spam, inbox, emails, email_batches, tasks,
                 results, spam_folder, dele_calls, shared_queue, run_start,
                 run_no, first_run>>
  /\ UNCHANGED procVars
  /\ UNCHANGED <<probe, reported>>
  /\ UNCHANGED monVars

\* lines 169-176: self.processor.save_state(), then the summary is logged
RunSaveState ==
  /\ pc = "save"
  /\ LET w == SaveState(contacts_df, stats, contacts_file, stats_file)
     IN  /\ contacts_file' = w.contacts
         /\ stats_file' = w.stats
  /\ stats_writers' = stats_writers \cup {Orchestrator}
  /\ file_hist' = hist
  /\ pc' = "done"
  /\ UNCHANGED <<contacts_df, stats, hist, ops>>
  /\ UNCHANGED <<num_processes, delete_spam, inbox, emails, email_batches, tasks,
                 results, spam_folder, dele_calls, shared_queue, run_start,
                 run_no, first_run>>
  /\ UNCHANGED <<probe, reported>>
  /\ UNCHANGED monVars

NextRun ==
  \/ ConnectFails
  \/ FetchEmails
  \/ SplitBatches
  \/ PoolMap
  \/ PoolMapRaises
  \/ \E b \in DOMAIN tasks : TaskStart(b)
  \/ \E b \in DOMAIN tasks : WorkerProcessEmail(b)
  \/ \E b \in DOMAIN tasks : WorkerPublish(b)
  \/ PoolMapReturn
  \/ DeleteSpam
  \/ Quit
  \/ QuitFails
  \/ RunSaveState

Next == NextRun

Spec == Init /\ [][Next]_vars

\* ------------------------------------- the same mailbox with 1 and 4 workers
InitEq ==
  /\ \E files \in PriorFiles : ReaderInit(files)
  /\ num_processes = 1
  /\ delete_spam \in BOOLEAN
  /\ inbox \in SeqsUpTo(RunMessages, MaxMsgs)
  /\ RunReset
  /\ run_no = 1
  /\ first_run = NoRun
  /\ probe = NoProbe /\ NoObserver /\ reported = 0

\* After the run with 1 worker: keep what it persisted, put the files back
\* as they were, and let a new EmailReader with num_processes = 4 process
\* the same mailbox.
RunAgain ==
  /\ pc = "done"
  /\ run_no = 1
  /\ first_run' = [emails |-> emails, contacts |-> contacts_file,
                   stats |-> stats_file]
  /\ run_no' = 2
  /\ contacts_file' = run_start.contacts
  /\ stats_file' = run_start.stats
  /\ contacts_df' = LoadContacts(run_start.contacts)
  /\ stats' = LoadStats(run_start.stats)
  /\ stats_writers' = {}
  /\ num_processes' = 4
  /\ pc' = "start"
  /\ emails' = <<>>
  /\ email_batches' = <<>>
  /\ tasks' = <<>>
  /\ results' = <<>>
  /\ spam_folder' = {}
  /\ dele_calls' = <<>>
  /\ shared_queue' = <<>>
  /\ monitors' = <<>>
  /\ taken' = 0
  /\ callback_log' = <<>>
  /\ UNCHANGED <<hist, file_hist, ops, delete_spam, inbox, run_start>>
  /\ UNCHANGED <<probe, reported, update_callback>>

NextEq ==
  \/ NextRun
  \/ RunAgain

SpecEq == InitEq /\ [][NextEq]_vars

\* ------------------------------------------------------ claims on the run
Deltas == Flatten(results)

ProcessedFrom(s) ==
  Cardinality({i \in DOMAIN Deltas : Deltas[i].email_info.sender = s})

PersistedTotal(f, s) ==
  IF s \in DOMAIN LoadContacts(f) THEN LoadContacts(f)[s].total_emails ELSE 0

\* C1: when process_emails has saved its state, the persisted total_emails of
\* every sender has grown by the number of the sender's messages processed
\* in the run, and the persisted total_emails_processed by the number of
\* deltas of the run.
C1_DeltasReachPersistedState ==
  pc = "done" =>
    /\ \A s \in Senders :
         PersistedTotal(contacts_file, s)
           = PersistedTotal(run_start.contacts, s) + ProcessedFrom(s)
    /\ LoadStats(stats_file).total_emails_processed
         = LoadStats(run_start.stats).total_emails_processed + Len(Deltas)

\* C2: only the orchestrating process writes the statistics file, and no
\* pool task changes the ledger or the statistics it holds.
C2_OnlyOrchestratorWrites ==
  /\ stats_writers \subseteq {Orchestrator}
  /\ \A b \in DOMAIN tasks :
       /\ tasks[b].contacts_df = contacts_df
       /\ tasks[b].stats = stats

LedgerContent(f) ==
  [s \in DOMAIN LoadContacts(f) |->
     [total_emails    |-> LoadContacts(f)[s].total_emails,
      ad_emails       |-> LoadContacts(f)[s].ad_emails,
      unsubscribe_url |-> LoadContacts(f)[s].unsubscribe_url]]

Counters(f) ==
  [total_emails_processed |-> LoadStats(f).total_emails_processed,
   total_advertisements   |-> LoadStats(f).total_advertisements]

C8_DeleteOnlyArchivedSpam ==
  /\ \A k \in DOMAIN dele_calls :
       /\ delete_spam
       /\ dele_calls[k] \in spam_folder
       /\ dele_calls[k] \in DOMAIN inbox
       /\ inbox[dele_calls[k]].is_ad
       /\ inbox[dele_calls[k]].date # BadDate
  /\ \A i \in DOMAIN Deltas :
       Deltas[i].email_info.stored_locally # "True"
         => Deltas[i].msg_num \notin Range(dele_calls)

C8_Witness ==
  /\ Len(dele_calls) = 1
  /\ \E i \in DOMAIN Deltas :
       /\ Deltas[i].email_info.is_ad
       /\ Deltas[i].email_info.stored_locally = "False"

\* C9: once the delete loop has run with spam deletion enabled, every
\* message whose spam file was stored has been passed to server.dele exactly
\* once, under the index it was fetched with, and never before it was stored.
C9_ArchivedSpamDeletedOnce ==
  /\ \A k \in DOMAIN dele_calls :
       /\ dele_calls[k] \in spam_folder
       /\ \A j \in DOMAIN dele_calls : dele_calls[j] = dele_calls[k] => j = k
  /\ \A i \in spam_folder :
       /\ i \in DOMAIN inbox
       /\ \E k \in DOMAIN emails :
            emails[k].msg_num = i /\ emails[k].msg = inbox[i] /\ inbox[i].is_ad
  /\ (pc \in {"quit", "save", "done", "failed_quit"} /\ delete_spam)
       => spam_folder \subseteq Range(dele_calls)

\* message 1 could not be fetched; message 2 was stored and deleted as 2
C9_Witness ==
  /\ pc = "done"
  /\ Len(inbox) = 2
  /\ Len(emails) = 1
  /\ spam_folder = {2}
  /\ dele_calls = <<2>>

\* ------------------------------------------ the key of a ContactRecord
\* Messages whose From header yields an address in capitals, the same
\* address in small letters, or nothing.
KeyMessages ==
  [sender : KeySenders, date : {1}, is_ad : BOOLEAN, url : {None, "https://a"}]

\* processor.process_email(msg) on one of these messages
KeyProcessEmail ==
  /\ ops < MaxKeyOps
  /\ \E msg \in KeyMessages :
       LET r == ProcessEmail([contacts_df |-> contacts_df, stats |-> stats], msg)
       IN  /\ contacts_df' = r.contacts_df
           /\ stats' = r.stats
           /\ stats_file' = IF r.ok THEN File(DumpStats(r.stats)) ELSE stats_file
           /\ stats_writers' = IF r.ok THEN stats_writers \cup {Orchestrator}
                                       ELSE stats_writers
           /\ hist' = IF r.ok THEN Record(hist, msg) ELSE hist
  /\ ops' = ops + 1
  /\ UNCHANGED <<contacts_file, file_hist>>
  /\ UNCHANGED runVars
  /\ UNCHANGED <<probe, reported>>
  /\ UNCHANGED monVars

\* processor.save_state(), then EmailProcessor(contacts_file, stats_file):
\* two calls, the second on the files the first has written
KeySaveAndReload ==
  /\ ops + 2 <= MaxKeyOps
  /\ ops' = ops + 2
  /\ LET w == SaveState(contacts_df, stats, contacts_file, stats_file)
     IN  /\ contacts_file' = w.contacts
         /\ stats_file' = w.stats
         /\ contacts_df' = LoadContacts(w.contacts)
         /\ stats' = LoadStats(w.stats)
  /\ stats_writers' = stats_writers \cup {Orchestrator}
  /\ file_hist' = hist
  /\ UNCHANGED hist
  /\ UNCHANGED runVars
  /\ UNCHANGED <<probe, reported>>
  /\ UNCHANGED monVars

InitKeys == ProcInit /\ RunIdle /\ probe = NoProbe /\ NoObserver /\ reported = 0

NextKeys ==
  \/ KeyProcessEmail
  \/ KeySaveAndReload

SpecKeys == InitKeys /\ [][NextKeys]_vars

\* C11: the ledger holds at most one record per sender address compared
\* case-insensitively: two messages whose sender addresses differ only in
\* letter case update the same record.
C11_OneRecordPerLowerCasedAddress ==
  \A s, t \in DOMAIN contacts_df : Lower(s) = Lower(t) => s = t

\* two ledgers hold the same records: the same senders, and for each the
\* same counts, the same flag, the same instant of last contact and the
\* same unsubscribe URL or none
SameLedger(a, b) ==
  /\ DOMAIN a = DOMAIN b
  /\ \A s \in DOMAIN a \cap DOMAIN b :
       /\ a[s].total_emails = b[s].total_emails
       /\ a[s].ad_emails = b[s].ad_emails
       /\ a[s].is_advertisement = b[s].is_advertisement
       /\ a[s].last_contact.t = b[s].last_contact.t
       /\ IF Absent(a[s].unsubscribe_url)
          THEN Absent(b[s].unsubscribe_url)
          ELSE a[s].unsubscribe_url = b[s].unsubscribe_url

\* C12: save_state followed by a new EmailProcessor on the same files gives
\* a ledger with the records of the ledger that was saved: the same senders,
\* counts, unsubscribe URL (or none), last contact and flag.
C12_LedgerRoundTrip ==
  SameLedger(LoadContacts(SaveState(contacts_df, stats, contacts_file,
                                    stats_file).contacts),
             contacts_df)

Processable(batch, n) ==
  LET first == SubSeq(batch, 1, n)
      ok    == Select(first, {e \in Range(first) : e.msg.date # BadDate})
  IN  [i \in DOMAIN ok |-> ok[i].msg_num]

\* C14: in a worker batch a message whose processing fails yields no delta
\* and every other message yields exactly one, in the order of the batch:
\* at every moment the results of a task are those of the messages it has
\* gone through whose processing did not fail, and a finished task has gone
\* through its whole batch.
C14_FailedMessageSkipped ==
  /\ \A b \in DOMAIN tasks :
       /\ tasks[b].pos <= Len(email_batches[b]) + 1
       /\ [i \in DOMAIN tasks[b].results |-> tasks[b].results[i].msg_num]
            = Processable(email_batches[b], tasks[b].pos - 1)
  /\ \A b \in DOMAIN results :
       [i \in DOMAIN results[b] |-> results[b][i].msg_num]
         = Processable(email_batches[b], Len(email_batches[b]))

\* a batch of two whose first message failed and whose second gave a delta
C14_Witness ==
  \E b \in DOMAIN tasks :
    /\ Finished(b)
    /\ Len(email_batches[b]) = 2
    /\ email_batches[b][1].msg.date = BadDate
    /\ email_batches[b][2].msg.date # BadDate
    /\ Len(tasks[b].results) = 1
    /\ tasks[b].results[1].msg_num = email_batches[b][2].msg_num

\* ------------------------------------------- writes to disk that can fail
\* processor.process_email(msg) when the open() of save_stats may raise:
\* _update_contacts and update_stats have changed the ledger and the
\* counters by then; the handler of process_email logs the error and
\* returns None, and the file is as it was.
IoProcessEmail ==
  /\ pc = "idle"
  /\ ops < MaxIoOps
  /\ \E msg \in RunMessages, written \in BOOLEAN :
       LET r == ProcessEmail([contacts_df |-> contacts_df, stats |-> stats], msg)
       IN  /\ contacts_df' = r.contacts_df
           /\ stats' = r.stats
           /\ stats_file' = IF r.ok /\ written THEN File(DumpStats(r.stats))
                                               ELSE stats_file
           /\ stats_writers' = IF r.ok /\ written
                               THEN stats_writers \cup {Orchestrator}
                               ELSE stats_writers
           /\ hist' = IF r.ok THEN Record(hist, msg) ELSE hist
           /\ reported' = IF r.ok /\ written THEN reported + 1 ELSE reported
  /\ ops' = ops + 1
  /\ UNCHANGED <<contacts_file, file_hist>>
  /\ UNCHANGED runVarsButTasks
  /\ UNCHANGED tasks
  /\ UNCHANGED probe
  /\ UNCHANGED monVars

\* processor.save_state() when a write may raise: _save_contacts first, then
\* save_stats; save_state has no handler, so the caller's run ends there
\* with the processor as it is.
IoSaveState ==
  /\ pc = "idle"
  /\ ops < MaxIoOps
  /\ ops' = ops + 1
  /\ \E raised_in \in {"nothing", "_save_contacts", "save_stats"} :
       LET w == SaveState(contacts_df, stats, contacts_file, stats_file)
       IN  /\ contacts_file' = IF raised_in = "_save_contacts"
                               THEN contacts_file ELSE w.contacts
           /\ file_hist' = IF raised_in = "_save_contacts" THEN file_hist ELSE hist
           /\ stats_file' = IF raised_in = "nothing" THEN w.stats ELSE stats_file
           /\ stats_writers' = IF raised_in = "nothing"
                               THEN stats_writers \cup {Orchestrator}
                               ELSE stats_writers
           /\ pc' = IF raised_in = "nothing" THEN pc ELSE "failed_save"
  /\ UNCHANGED <<contacts_df, stats, hist>>
  /\ UNCHANGED <<num_processes, delete_spam, inbox, emails, email_batches, tasks,
                 results, spam_folder, dele_calls, shared_queue, run_start,
                 run_no, first_run>>
  /\ UNCHANGED <<probe, reported>>
  /\ UNCHANGED monVars

InitIO == ProcInit /\ RunIdle /\ probe = NoProbe /\ NoObserver /\ reported = 0

NextIO ==
  \/ IoProcessEmail
  \/ IoSaveState

SpecIO == InitIO /\ [][NextIO]_vars

\* C15: after a failed write of the statistics file the update is kept and
\* made good before anything else happens: while the statistics in memory
\* are not the ones on disk, the processor applies no further delta (it
\* retries the write, rolls the update back, or the run is over).
C15_NoDeltaOnUnsavedState ==
  [][(pc = "idle" /\ LoadStats(stats_file) # stats)
       => stats'.total_emails_processed <= stats.total_emails_processed]_vars

\* ------------------------------------------------------------- EmailParser
\* A From header is the concatenation of pieces: the two angle brackets,
\* two addresses, and a word that is no address.
FromTokens == {"<", ">", "john@example.com", "jane@example.com", "invalid"}
FromHeaders == SeqsUpTo(FromTokens, MaxFromLen)

\* str.find(c) + 1 for a c that occurs in h
Find(h, c) == CHOOSE i \in DOMAIN h : h[i] = c /\ \A j \in 1..(i - 1) : h[j] # c

\* EmailParser.get_sender_email: the slice between the first '<' and the
\* first '>', or the header as it is (msg.get('From', '') is '' = << >> for
\* a missing header)
GetSenderEmail(from_header) ==
  IF "<" \in Range(from_header) /\ ">" \in Range(from_header)
  THEN SubSeq(from_header, Find(from_header, "<") + 1, Find(from_header, ">") - 1)
  ELSE from_header

\* A message in the order of msg.walk(), without the multipart containers
\* (whose content type is neither text/plain nor text/html); a message that
\* is not multipart is its one part.
ContentTypes == {"text/plain", "text/html", "application/pdf"}
Parts == [content_type : ContentTypes, payload : {"x", "y"}]
MimeMessages ==
  {[multipart |-> FALSE, parts |-> <<p>>] : p \in Parts}
    \cup {[multipart |-> TRUE, parts |-> q] : q \in SeqsUpTo(Parts, MaxParts)}

\* the loop of get_email_content over msg.walk()
RECURSIVE WalkContent(_)
WalkContent(parts) ==
  IF parts = <<>> THEN None
  ELSE IF Head(parts).content_type = "text/plain" THEN Head(parts).payload
  ELSE IF Head(parts).content_type = "text/html" THEN Head(parts).payload
  ELSE WalkContent(Tail(parts))

\* EmailParser.get_email_content
GetEmailContent(msg) ==
  IF msg.multipart THEN WalkContent(msg.parts) ELSE msg.parts[1].payload

\* The <...> tokens of a List-Unsubscribe header, in order (none when the
\* header is missing, empty or without a token).
HeaderTokens == {"https://a", "mailto:u@x.com"}
IsHttp(token) == token = "https://a"
\* URLs of a body, with and without one of the unsubscribe keywords in them
BodyUrls == {"https://b", "https://b/unsubscribe"}
HasKeyword(url) == url = "https://b/unsubscribe"
\* an <a href=...>: whether its text holds a keyword, and its href
Anchors == [label_kw : BOOLEAN, href : BodyUrls]
\* a URL in the text: whether it stands right after "keyword:", and the URL
TextUrls == [after_kw : BOOLEAN, url : BodyUrls]
\* text with '<html' or '<body' in it has markup; only such text has anchors
Bodies ==
  {[markup |-> m, anchors |-> a, text_urls |-> t] :
     m \in BOOLEAN, a \in SeqsUpTo(Anchors, MaxLinks),
     t \in SeqsUpTo(TextUrls, MaxLinks)}
UnsubscribeInputs ==
  {[list_unsubscribe |-> h, body |-> b] :
     h \in SeqsUpTo(HeaderTokens, MaxTokens),
     b \in {x \in Bodies : ~x.markup => x.anchors = <<>>}}

\* EmailParser._extract_urls_from_html
ExtractUrlsFromHtml(body) ==
  LET hit == Select(body.anchors,
                    {a \in Range(body.anchors) : a.label_kw \/ HasKeyword(a.href)})
  IN  [i \in DOMAIN hit |-> hit[i].href]

\* EmailParser._extract_urls_from_text: the matches of the first pattern,
\* then those of the second
ExtractUrlsFromText(body) ==
  LET first  == Select(body.text_urls, {u \in Range(body.text_urls) : u.after_kw})
      second == Select(body.text_urls,
                       {u \in Range(body.text_urls) : HasKeyword(u.url)})
  IN  [i \in DOMAIN first |-> first[i].url]
        \o [i \in DOMAIN second |-> second[i].url]

\* extract_unsubscribe_url that looks at the body before the header
ExtractUnsubscribeUrlBodyFirst(list_unsubscribe, body) ==
  LET html == IF body.markup THEN ExtractUrlsFromHtml(body) ELSE <<>>
      text == ExtractUrlsFromText(body)
  IN  IF html # <<>> THEN html[1]
      ELSE IF text # <<>> THEN text[1]
      ELSE IF list_unsubscribe # <<>> THEN list_unsubscribe[1]
      ELSE None

\* EmailParser.extract_unsubscribe_url
ExtractUnsubscribeUrl(list_unsubscribe, body) ==
  IF list_unsubscribe # <<>> THEN list_unsubscribe[1]
  ELSE LET html == IF body.markup THEN ExtractUrlsFromHtml(body) ELSE <<>>
           text == ExtractUrlsFromText(body)
       IN  IF html # <<>> THEN html[1]
           ELSE IF text # <<>> THEN text[1]
           ELSE None

\* ---------------------------------------------------- AdvertisementDetector
\* A text is the concatenation of pieces; "OFFER" is "offer" in capitals.
AdTokens == {"this is a ", "special", " ", "offer", "OFFER", "un", "subscribe"}
LowerToken(t) == IF t = "OFFER" THEN "offer" ELSE t
Texts == SeqsUpTo(AdTokens, MaxWords)

\* AdvertisementDetector.ad_indicators
ad_indicators ==
  << <<"special", " ", "offer">>, <<"limited", " ", "time">>, <<"discount">>,
     <<"sale">>, <<"promotion">>, <<"deal">>, <<"offer">>,
     <<"buy", " ", "now">>, <<"subscribe">>, <<"un", "subscribe">>,
     <<"marketing">>, <<"sponsored">>, <<"advertisement">>,
     <<"exclusive", " ", "deal">>, <<"limited", " ", "stock">>,
     <<"free", " ", "shipping">>, <<"money", " ", "back", " ", "guarantee">>,
     <<"best", " ", "price">>, <<"special", " ", "pricing">> >>

\* the positions at which the phrase occurs in the text
Positions(text, phrase) ==
  {i \in 1..(Len(text) - Len(phrase) + 1) :
     SubSeq(text, i, i + Len(phrase) - 1) = phrase}

AdThreshold == 2

\* AdvertisementDetector.is_advertisement
IsAdvertisement(text) ==
  LET lower == [i \in DOMAIN text |-> LowerToken(text[i])]
      indicator_count ==
        Cardinality({k \in DOMAIN ad_indicators :
                       Positions(lower, ad_indicators[k]) # {}})
  IN  indicator_count >= AdThreshold

\* ------------------------------------- one call of one of these functions
Call(fn, arg) == [fn |-> fn, arg |-> arg, done |-> FALSE, out |-> None]

InitParse ==
  /\ ProcInit
  /\ RunIdle
  /\ NoObserver
  /\ reported = 0
  /\ \/ \E h \in FromHeaders : probe = Call("get_sender_email", h)
     \/ \E m \in MimeMessages : probe = Call("get_email_content", m)
     \/ \E u \in UnsubscribeInputs : probe = Call("extract_unsubscribe_url", u)
     \/ \E t \in Texts : probe = Call("is_advertisement", t)

ApplyGetSenderEmail ==
  /\ probe.fn = "get_sender_email"
  /\ ~probe.done
  /\ probe' = [probe EXCEPT !.done = TRUE, !.out = GetSenderEmail(probe.arg)]
  /\ UNCHANGED procVars
  /\ UNCHANGED runVars
  /\ UNCHANGED reported
  /\ UNCHANGED monVars

ApplyGetEmailContent ==
  /\ probe.fn = "get_email_content"
  /\ ~probe.done
  /\ probe' = [probe EXCEPT !.done = TRUE, !.out = GetEmailContent(probe.arg)]
  /\ UNCHANGED procVars
  /\ UNCHANGED runVars
  /\ UNCHANGED reported
  /\ UNCHANGED monVars

ApplyExtractUnsubscribeUrl ==
  /\ probe.fn = "extract_unsubscribe_url"
  /\ ~probe.done
  /\ probe' = [probe EXCEPT
                 !.done = TRUE,
                 !.out = ExtractUnsubscribeUrl(probe.arg.list_unsubscribe,
                                               probe.arg.body)]
  /\ UNCHANGED procVars
  /\ UNCHANGED runVars
  /\ UNCHANGED reported
  /\ UNCHANGED monVars

ApplyIsAdvertisement ==
  /\ probe.fn = "is_advertisement"
  /\ ~probe.done
  /\ probe' = [probe EXCEPT !.done = TRUE, !.out = IsAdvertisement(probe.arg)]
  /\ UNCHANGED procVars
  /\ UNCHANGED runVars
  /\ UNCHANGED reported
  /\ UNCHANGED monVars

NextParse ==
  \/ ApplyGetSenderEmail
  \/ ApplyGetEmailContent
  \/ ApplyExtractUnsubscribeUrl
  \/ ApplyIsAdvertisement

SpecParse == InitParse /\ [][NextParse]_vars

Returned(fn) == probe.fn = fn /\ probe.done

\* ------------------------------------------------------ claims on the parser
\* the unsubscribe anchors of a body with markup, and the URLs of its text
\* that stand after a keyword or hold one
AnchorHits(b) ==
  IF b.markup
  THEN {a.href : a \in {x \in Range(b.anchors) : x.label_kw \/ HasKeyword(x.href)}}
  ELSE {}
TextHits(b) ==
  {u.url : u \in {x \in Range(b.text_urls) : x.after_kw \/ HasKeyword(x.url)}}

C17_FirstHttpTokenOfHeader ==
  (Returned("extract_unsubscribe_url") /\ probe.arg.list_unsubscribe # <<>>) =>
    LET hdr  == probe.arg.list_unsubscribe
        http == Select(hdr, {t \in Range(hdr) : IsHttp(t)})
    IN  probe.out = (IF http # <<>> THEN http[1] ELSE None)

\* C18: of a multipart message the content is the payload of the first
\* text/plain part wherever it stands, and that of the first text/html part
\* only if there is no text/plain part; of a message that is not multipart
\* it is the payload.
C18_PlainTextPreferred ==
  Returned("get_email_content") =>
    LET parts == probe.arg.parts
        plain == Select(parts, {x \in Range(parts) : x.content_type = "text/plain"})
        html  == Select(parts, {x \in Range(parts) : x.content_type = "text/html"})
    IN  IF ~probe.arg.multipart THEN probe.out = parts[1].payload
        ELSE /\ plain # <<>> => probe.out = plain[1].payload
             /\ (plain = <<>> /\ html # <<>>) => probe.out = html[1].payload

\* the pairs (i, k) such that the header has '<' at i, '>' at k and between
\* them an address and no further bracket
IsAddress(token) == token \in {"john@example.com", "jane@example.com"}
BracketedAddresses(h) ==
  {ik \in (DOMAIN h) \X (DOMAIN h) :
     /\ ik[1] < ik[2]
     /\ h[ik[1]] = "<"
     /\ h[ik[2]] = ">"
     /\ \A j \in (ik[1] + 1)..(ik[2] - 1) : h[j] \notin {"<", ">"}
     /\ \E j \in (ik[1] + 1)..(ik[2] - 1) : IsAddress(h[j])}

\* C19: the sender is the first address of the From header that stands
\* between angle brackets ('<<john@example.com>>' gives 'john@example.com')
\* when there is one, and the header as it is otherwise ('<invalid>' gives
\* '<invalid>', an empty header '').
C19_FirstBracketedAddress ==
  Returned("get_sender_email") =>
    LET h == probe.arg
        B == BracketedAddresses(h)
    IN  IF B = {} THEN probe.out = h
        ELSE LET ik == CHOOSE x \in B : \A y \in B : x[1] <= y[1]
             IN  probe.out = SubSeq(h, ik[1] + 1, ik[2] - 1)

\* the indicator phrases of a text: those with an occurrence that is not
\* part of an occurrence of a longer indicator
PhrasesIn(text) ==
  LET lower == [i \in DOMAIN text |-> LowerToken(text[i])]
      inside(i, k) ==
        \E l \in DOMAIN ad_indicators :
          /\ Len(ad_indicators[l]) > Len(ad_indicators[k])
          /\ \E j \in Positions(lower, ad_indicators[l]) :
               /\ j <= i
               /\ i + Len(ad_indicators[k]) <= j + Len(ad_indicators[l])
  IN  {k \in DOMAIN ad_indicators :
         \E i \in Positions(lower, ad_indicators[k]) : ~inside(i, k)}

\* C20: a text is classified as an advertisement only when at least two
\* distinct indicator phrases occur in it, in whatever letter case; a text
\* with one indicator phrase ('This is a special offer') is not.
C20_TwoPhrasesNeeded ==
  (Returned("is_advertisement") /\ probe.out) =>
    Cardinality(PhrasesIn(probe.arg)) >= AdThreshold

\* ------------------------------------------------------ the observer thread
\* The steps of the threads that run _monitor_progress, beside the steps of
\* process_emails.  An item of the queue is named by its position in
\* shared_queue, the order in which the workers' puts arrived.
MonMessage == [sender |-> "a@x.com", date |-> 1, is_ad |-> FALSE, url |-> None]

FinalPcs == {"done", "failed_connect", "failed_map", "failed_quit"}

\* a new EmailReader on no files, with or without set_update_callback
InitMon ==
  /\ ReaderInit(NoFiles)
  /\ num_processes \in {1, 2}
  /\ delete_spam = FALSE
  /\ inbox \in SeqsUpTo({MonMessage}, MaxMonMsgs)
  /\ RunReset
  /\ run_no = 1
  /\ first_run = NoRun
  /\ probe = NoProbe
  /\ reported = 0
  /\ update_callback \in BOOLEAN
  /\ monitors = <<>>
  /\ taken = 0
  /\ callback_log = <<>>

\* line 114 in thread i: shared_queue.get() returns the oldest item; it
\* blocks while the queue is empty
MonitorGet(i) ==
  /\ monitors[i].st = "waiting"
  /\ taken < Len(shared_queue)
  /\ taken' = taken + 1
  /\ monitors' = [monitors EXCEPT ![i] = [st |-> "got", item |-> taken + 1]]
  /\ UNCHANGED <<update_callback, callback_log>>
  /\ UNCHANGED procVars
  /\ UNCHANGED runVars
  /\ UNCHANGED <<probe, reported>>

\* lines 117-122 in thread i: the callback, if one is set, is called with
\* the item; if it raises, the handler logs the error and leaves the loop
MonitorCallback(i) ==
  /\ monitors[i].st = "got"
  /\ IF update_callback
     THEN \E raises \in BOOLEAN :
            /\ callback_log' = Append(callback_log, monitors[i].item)
            /\ monitors' = [monitors EXCEPT ![i] =
                              IF raises THEN [st |-> "ended", item |-> 0]
                                        ELSE NewMonitor]
     ELSE /\ monitors' = [monitors EXCEPT ![i] = NewMonitor]
          /\ UNCHANGED callback_log
  /\ UNCHANGED <<update_callback, taken>>
  /\ UNCHANGED procVars
  /\ UNCHANGED runVars
  /\ UNCHANGED <<probe, reported>>

\* process_emails is called again on the same EmailReader: the processor,
\* the queue and the threads started earlier are those of the reader
ProcessEmailsAgain ==
  /\ pc \in FinalPcs
  /\ run_no < MaxRuns
  /\ run_no' = run_no + 1
  /\ pc' = "start"
  /\ emails' = <<>>
  /\ email_batches' = <<>>
  /\ tasks' = <<>>
  /\ results' = <<>>
  /\ dele_calls' = <<>>
  /\ run_start' = [contacts |-> contacts_file, stats |-> stats_file]
  /\ UNCHANGED <<num_processes, delete_spam, inbox, spam_folder, shared_queue,
                 first_run>>
  /\ UNCHANGED procVars
  /\ UNCHANGED <<probe, reported>>
  /\ UNCHANGED monVars

MonitorStep ==
  \E i \in DOMAIN monitors : MonitorGet(i) \/ MonitorCallback(i)

NextMon ==
  \/ NextRun
  \/ \E i \in DOMAIN monitors : MonitorGet(i)
  \/ \E i \in DOMAIN monitors : MonitorCallback(i)
  \/ ProcessEmailsAgain

SpecMon == InitMon /\ [][NextMon]_vars

\* every started thread and process keeps being scheduled; whether
\* process_emails is called again is up to the caller
SpecMonFair == SpecMon /\ WF_vars(NextRun) /\ WF_vars(MonitorStep)

Drained ==
  /\ taken = Len(shared_queue)
  /\ \A i \in DOMAIN monitors : monitors[i].st # "got"

Alive == {i \in DOMAIN monitors : monitors[i].st # "ended"}

\* C21: once process_emails has finished and the queue is drained, every
\* observer thread started on the reader eventually terminates; none stays
\* blocked on the empty queue for ever.
C21_ObserverTerminates ==
  (pc \in FinalPcs /\ Drained) ~> (Alive = {})

\* C22: with a callback set, the items passed to the callback are the items
\* of the queue in the order of their arrival, each passed once: the k-th
\* call of the callback is for the k-th item.
C22_CallbackInArrivalOrder ==
  update_callback => \A k \in DOMAIN callback_log : callback_log[k] = k

\* C23: a callback that raises does not stop the observer: a thread running
\* _monitor_progress ends only once process_emails has finished and the
\* queue is empty, so it is there for the items that arrive after a failure.
C23_ObserverSurvivesCallbackFailure ==
  [][\A i \in DOMAIN monitors :
       (monitors[i].st # "ended" /\ monitors'[i].st = "ended")
         => (pc \in FinalPcs /\ taken = Len(shared_queue))]_vars

\* C24: at most one observer thread is consuming the queue of an EmailReader
\* at any time, also when process_emails is called again on the reader.
C24_AtMostOneObserver == Cardinality(Alive) <= 1

\* ------------------------------------------------ the end of process_emails
\* C25: the ledger and the statistics are persisted by save_state before the
\* transport is released: once server.quit() has returned, the orchestrating
\* process has written the state files.
C25_PersistedBeforeQuit ==
  pc \in {"save", "done"} => Orchestrator \in stats_writers

\* ------------------------------------------------ sums over the ledger
RECURSIVE Sum(_)
Sum(f) ==
  IF DOMAIN f = {} THEN 0
  ELSE LET s == CHOOSE x \in DOMAIN f : TRUE
       IN  f[s] + Sum([t \in DOMAIN f \ {s} |-> f[t]])

\* contacts_df['total_emails'].sum() and contacts_df['ad_emails'].sum()
TotalEmails(df) == Sum([s \in DOMAIN df |-> df[s].total_emails])
AdEmails(df) == Sum([s \in DOMAIN df |-> df[s].ad_emails])

\* C26: process_email is all-or-nothing: the ledger and the statistics
\* count exactly the calls that returned a result; a call that returned
\* None has changed neither.
C26_AllOrNothing ==
  /\ stats.total_emails_processed = reported
  /\ TotalEmails(contacts_df) = reported

\* C27: for files that started empty, the statistics file and the ledger
\* file on disk are a consistent snapshot at every point of a run: the
\* persisted total_emails_processed is the sum of total_emails over the
\* persisted ledger.
C27_FilesConsistent ==
  (~run_start.contacts.exists /\ ~run_start.stats.exists)
    => LoadStats(stats_file).total_emails_processed
         = TotalEmails(LoadContacts(contacts_file))

\* C29: for a processor started on an empty ledger and default statistics,
\* after any sequence of process_email calls, successful or failing,
\* total_emails_processed is the sum of total_emails over the ledger and
\* total_advertisements the sum of ad_emails, so that 0 <= advertisements
\* <= processed.
C29_StatsAreLedgerSums ==
  /\ stats.total_emails_processed = TotalEmails(contacts_df)
  /\ stats.total_advertisements = AdEmails(contacts_df)
  /\ 0 <= stats.total_advertisements
  /\ stats.total_advertisements <= stats.total_emails_processed

\* three calls: one failed on its Date header, one gave a result, and one
\* changed the processor and returned None because the write failed
C29_Witness ==
  /\ ops = 3
  /\ reported = 1
  /\ stats.total_emails_processed = 2
  /\ stats.total_advertisements = 1
  /\ TotalEmails(contacts_df) = 2

\* C30: applying a delta for a sender changes that sender's row only: every
\* other row is as it was, no row is removed, and the set of senders grows
\* by the sender when it is new and not at all otherwise.
C30_OtherRowsUnchanged ==
  \A msg \in Messages :
    msg.date # BadDate =>
      LET new == UpdateContacts(contacts_df, msg.sender, msg.date, msg.is_ad,
                                msg.url)
      IN  /\ DOMAIN new = DOMAIN contacts_df \cup {msg.sender}
          /\ \A s \in DOMAIN contacts_df \ {msg.sender} : new[s] = contacts_df[s]

\* a row was added for b@x.com next to the row of a@x.com, and a further
\* delta was applied to one of the two
C30_Witness ==
  /\ DOMAIN contacts_df = Senders
  /\ contacts_df["a@x.com"].total_emails = 2
  /\ contacts_df["b@x.com"].total_emails = 1
  /\ contacts_df["b@x.com"].unsubscribe_url = "https://b"
  /\ Absent(contacts_df["a@x.com"].unsubscribe_url)

\* --------------------------------------------- the split of process_emails
SplitProcs == {1, 2, 3}

InitSplit ==
  /\ ReaderInit(NoFiles)
  /\ num_processes \in SplitProcs
  /\ delete_spam = FALSE
  /\ \E k \in 0..MaxFetched : inbox = [i \in 1..k |-> MonMessage]
  /\ RunReset
  /\ run_no = 1
  /\ first_run = NoRun
  /\ probe = NoProbe /\ NoObserver /\ reported = 0

NextSplit ==
  \/ FetchEmails
  \/ SplitBatches

SpecSplit == InitSplit /\ [][NextSplit]_vars

\* C28: the fetched messages are split into at most num_processes batches,
\* none of them empty, of sizes that differ by at most one, whose
\* concatenation is the fetched sequence in order (so that every message is
\* in exactly one batch), for every number of fetched messages.
C28_AtMostNBatches ==
  pc = "map" =>
    /\ Len(email_batches) <= num_processes
    /\ \A b \in DOMAIN email_batches : email_batches[b] # <<>>
    /\ \A b, c \in DOMAIN email_batches :
         Len(email_batches[b]) <= Len(email_batches[c]) + 1
    /\ Flatten(email_batches) = emails

=============================================================================
